---- MODULE Spec2Model ----
(***************************************************************************)
(* Model of src/src/collect_user_metadata.py: the seed loader, the yt-dlp  *)
(* invoker, the payload normaliser and the run loop of main().             *)
(*                                                                         *)
(* Strings the code inspects character by character (seed lines,           *)
(* usernames) are sequences of one-character strings.  JSON documents are  *)
(* records [kind, entries]; the kinds separate what the code separates:    *)
(* falsy values, truthy non-objects, and non-empty objects with their      *)
(* "entries" member.                                                       *)
(***************************************************************************)
EXTENDS Integers, Sequences, FiniteSets, TLC

VARIABLES
    seed,        \* the seed file: [exists, lines]
    failFast,    \* args.fail_fast
    maxVideos,   \* args.max_videos
    pc,          \* position of main(): start, invoke, sleep, write, exit, crashed
    users,       \* users (list returned by read_seed_users)
    i,           \* number of identifiers the loop has finished with
    username,    \* loop variable username
    last,        \* what the external tool did on the latest invocation
    y,           \* YtDlpResult of the latest invocation
    results,     \* results list
    errors,      \* errors list
    trace,       \* invocations, sleeps and artifact constructions of this run, in order
    written,     \* artifacts this run has written
    exitCode,    \* exit status of the process, Running while it runs
    clock,       \* latest wall-clock second read by datetime.now()
    dir,         \* output directory: timestamp -> run whose artifact the file holds (0: no file)
    outFile,     \* run -> timestamp of the file it wrote (NoFile: none)
    run          \* number of the current run

vars == <<seed, failFast, maxVideos, pc, users, i, username, last, y, results,
          errors, trace, written, exitCode, clock, dir, outFile, run>>

-----------------------------------------------------------------------------
(* Bounds *)
MaxEntries == 2      \* longest "entries" list of a payload
MaxClock == 1        \* wall-clock seconds 0..MaxClock
MaxRuns == 2         \* runs writing to the same output directory
MaxRunLines == 2     \* seed lines of a full run
MaxSeedLines == 3    \* seed lines when the seed loader is checked alone

(* Program constants *)
RC_TIMEOUT == 124
RC_NOT_FOUND == 127
RC_EXCEPTION == 1
RC_PARSE == 2
RC_OK == 0
EXIT_SEED_ERROR == 2
DefaultMaxVideos == 20

None == "<None>"
Running == -1
NoFile == -1
Traceback == 1       \* exit status of an uncaught exception

Min(a, b) == IF a < b THEN a ELSE b
Max(a, b) == IF a > b THEN a ELSE b

-----------------------------------------------------------------------------
(* Seed loader: read_seed_users *)

Whitespace == {" "}
IdChars == {"a", "A", "b", "B", "c", "e", "i", "l", "m", "n", "o", "t", ".", "_"}

lower(c) == CASE c = "A" -> "a" [] c = "B" -> "b" [] OTHER -> c

RECURSIVE str_lower(_)
str_lower(s) == IF s = <<>> THEN <<>> ELSE <<lower(Head(s))>> \o str_lower(Tail(s))

lstrip_once(s, chars) == IF s # <<>> /\ Head(s) \in chars THEN Tail(s) ELSE s
RECURSIVE lstrip(_, _)
lstrip(s, chars) ==
    IF s = <<>> THEN <<>>
    ELSE IF Head(s) \in chars THEN lstrip(Tail(s), chars) ELSE s

RECURSIVE rstrip(_, _)
rstrip(s, chars) ==
    IF s = <<>> THEN <<>>
    ELSE IF s[Len(s)] \in chars THEN rstrip(SubSeq(s, 1, Len(s) - 1), chars) ELSE s

strip(s) == rstrip(lstrip(s, Whitespace), Whitespace)

\* re.fullmatch(r"[A-Za-z0-9._]+", u) is not None
sanity(u) == u # <<>> /\ \A k \in 1..Len(u) : u[k] \in IdChars

\* first loop of read_seed_users: the cleaned candidates, duplicates included
RECURSIVE clean_lines(_)
clean_lines(lines) ==
    IF lines = <<>> THEN <<>>
    ELSE LET u == strip(Head(lines))
             rest == clean_lines(Tail(lines))
         IN  IF u = <<>> \/ Head(u) = "#" THEN rest
             ELSE LET v == lstrip(u, {"@"})
                  IN  IF ~sanity(v) THEN <<v>> \o rest ELSE <<v>> \o rest

\* membership test of the de-dup loop
DedupKeyCaseSensitive(u) == u
DedupKey(u) == str_lower(u)

\* second loop of read_seed_users
RECURSIVE dedup(_, _, _)
dedup(us, seen, out) ==
    IF us = <<>> THEN out
    ELSE IF DedupKey(Head(us)) \notin seen
         THEN dedup(Tail(us), seen \cup {DedupKey(Head(us))}, Append(out, Head(us)))
         ELSE dedup(Tail(us), seen, out)

read_seed_users(s) == dedup(clean_lines(s.lines), {}, <<>>)

-----------------------------------------------------------------------------
(* JSON documents the tool can print *)

FalsyKinds == {"null", "zero", "emptydict", "emptylist"}   \* None, 0, {}, []
NonObjectKinds == {"list", "str", "num"}                    \* truthy, no .get
Kinds == FalsyKinds \cup NonObjectKinds \cup {"dict"}

\* a member of an entry: absent, null, a string or a number
AbsentVal == [t |-> "absent", s |-> <<>>, n |-> 0]
NullVal == [t |-> "null", s |-> <<>>, n |-> 0]
StrVal(s) == [t |-> "str", s |-> s, n |-> 0]
NumVal(n) == [t |-> "num", s |-> <<>>, n |-> n]

\* e.get(key): None when the key is absent
Get(v) == IF v.t = "absent" THEN NullVal ELSE v

\* bool(x) of a member
PyTruthy(v) ==
    CASE v.t = "str" -> v.s # <<>>
      [] v.t = "num" -> v.n # 0
      [] OTHER -> FALSE

\* a or b
PyOr(a, b) == IF PyTruthy(a) THEN a ELSE b

\* str(x) of a string or of a one-digit number
Digits == <<"0", "1", "2", "3", "4", "5", "6", "7", "8", "9">>
PyStr(v) == IF v.t = "num" THEN <<Digits[v.n + 1]>> ELSE v.s

safe_str(x) ==
    IF x.t = "null" THEN NullVal
    ELSE LET s == strip(PyStr(x))
         IN  IF s # <<>> THEN StrVal(s) ELSE NullVal

Entry(isDict, id, uploader, uploader_id) ==
    [isDict |-> isDict, id |-> id, uploader |-> uploader, uploader_id |-> uploader_id]

AbsentEntries == [ekind |-> "absent", items |-> <<>>]
NoneRaw == [kind |-> "null", entries |-> AbsentEntries]

\* an entries list: position k holds an object or something else
ItemLists ==
    UNION { { [k \in 1..n |-> Entry(f[k], k, AbsentVal, AbsentVal)] : f \in [1..n -> BOOLEAN] }
            : n \in 0..MaxEntries }

\* the "entries" member of an object: absent, null, a number, a string of
\* one character, an object, or a list
EntriesValues ==
    { [ekind |-> k, items |-> <<>>] : k \in {"absent", "null", "num", "dict"} }
    \cup { [ekind |-> "str", items |-> <<Entry(FALSE, 1, AbsentVal, AbsentVal)>>] }
    \cup { [ekind |-> "list", items |-> its] : its \in ItemLists }

Payloads ==
    { [kind |-> k, entries |-> AbsentEntries] : k \in FalsyKinds \cup NonObjectKinds }
    \cup { [kind |-> "dict", entries |-> e] : e \in EntriesValues }

\* bool(x) of a parsed document
Truthy(raw) == raw.kind \notin FalsyKinds

-----------------------------------------------------------------------------
(* What one run of the external process can do *)

ExitCodes == {1, 2}
Stderrs == {"", "ERROR: blocked"}

Proc(how, rc, parses, json, stderr) ==
    [how |-> how, returncode |-> rc, parses |-> parses, json |-> json, stderr |-> stderr]

NoProc == Proc("none", 0, FALSE, NoneRaw, "")

ToolOutcomes ==
    { Proc(h, 0, FALSE, NoneRaw, "") : h \in {"timeout", "notfound", "exception"} }
    \cup { Proc("exited", rc, FALSE, NoneRaw, e) : rc \in ExitCodes, e \in Stderrs }
    \cup { Proc("exited", 0, FALSE, NoneRaw, "") }
    \cup { Proc("exited", 0, TRUE, p, "") : p \in Payloads }

\* a reduced choice of outcomes: a timeout, a null document, an object
\* without entries
FewOutcomes ==
    { Proc("timeout", 0, FALSE, NoneRaw, ""),
      Proc("exited", 0, TRUE, NoneRaw, ""),
      Proc("exited", 0, TRUE, [kind |-> "dict", entries |-> AbsentEntries], "") }

-----------------------------------------------------------------------------
(* Extraction invoker: run_ytdlp_json *)

YtDlpResult(raw, error, returncode) ==
    [raw |-> raw, error |-> error, returncode |-> returncode]

NoResult == YtDlpResult(NoneRaw, None, 0)

run_ytdlp_json(o) ==
    CASE o.how = "timeout" -> YtDlpResult(NoneRaw, "timeout", RC_TIMEOUT)
      [] o.how = "notfound" ->
            YtDlpResult(NoneRaw, "yt-dlp not found. Install with: pip install yt-dlp",
                        RC_NOT_FOUND)
      [] o.how = "exception" -> YtDlpResult(NoneRaw, "exception: e", RC_EXCEPTION)
      [] OTHER ->
            IF o.returncode # 0
            THEN YtDlpResult(NoneRaw,
                             IF o.stderr # "" THEN o.stderr ELSE "yt-dlp failed",
                             o.returncode)
            ELSE IF o.parses
                 THEN YtDlpResult(o.json, None, RC_OK)
                 ELSE YtDlpResult(NoneRaw, "failed to parse yt-dlp JSON output", RC_PARSE)

-----------------------------------------------------------------------------
(* Record normaliser: normalize_user_payload *)

\* entries[:n]
SliceTo(s, n) ==
    IF n >= 0 THEN SubSeq(s, 1, Min(n, Len(s)))
    ELSE SubSeq(s, 1, Max(Len(s) + n, 0))

\* raw.get("entries") or []
EntriesOrEmpty(raw) ==
    IF raw.entries.ekind \in {"absent", "null"} THEN <<>> ELSE raw.entries.items

\* normalize_user_payload raises: raw has no .get, or entries cannot be sliced
Raises(raw) ==
    \/ raw.kind # "dict"
    \/ raw.entries.ekind \in {"num", "dict"}

normalize_video_entry(e, fallback_username) ==
    [video_id |-> e.id,
     uploader |-> safe_str(PyOr(PyOr(Get(e.uploader), Get(e.uploader_id)),
                                StrVal(fallback_username))),
     uploader_id |-> safe_str(Get(e.uploader_id))]

RECURSIVE KeepDicts(_, _)
KeepDicts(es, uname) ==
    IF es = <<>> THEN <<>>
    ELSE IF Head(es).isDict
         THEN <<normalize_video_entry(Head(es), uname)>> \o KeepDicts(Tail(es), uname)
         ELSE KeepDicts(Tail(es), uname)

normalize_user_payload(uname, raw, max_videos) ==
    [username |-> uname,
     requested_max_videos |-> max_videos,
     videos |-> KeepDicts(SliceTo(EntriesOrEmpty(raw), max_videos), uname)]

-----------------------------------------------------------------------------
(* Inputs of a run *)

Line_a == <<"a">>
Line_at_b == <<"@", "b">>
Line_comment == <<"#", "c">>
RunLines == {Line_a, Line_at_b, Line_comment}

SeqsUpTo(S, n) == UNION { [1..k -> S] : k \in 0..n }

SeedFile(lines) == [exists |-> TRUE, lines |-> lines]
MissingSeed == [exists |-> FALSE, lines |-> <<>>]

RunSeeds == {MissingSeed} \cup { SeedFile(ls) : ls \in SeqsUpTo(RunLines, MaxRunLines) }
MaxVideosChoices == {-1, 0, 1, 2}

-----------------------------------------------------------------------------
(* Run orchestrator: main *)

\* if y.error or not y.raw
IsErrErrorOnly(yy) == yy.error # None
IsErr(yy) == yy.error # None \/ ~Truthy(yy.raw)

ErrorRecordFixedCode(uname, yy) ==
    [username |-> uname,
     error |-> IF yy.error # None THEN yy.error ELSE "unknown error",
     returncode |-> RC_EXCEPTION]
ErrorRecord(uname, yy) ==
    [username |-> uname,
     error |-> IF yy.error # None THEN yy.error ELSE "unknown error",
     returncode |-> yy.returncode]

\* if args.fail_fast: break
BreakAlways(ff) == TRUE
BreakNever(ff) == FALSE
BreakOnError(ff) == ff

\* where the loop goes after an ErrorRecord was appended
AfterErrorSleepFirst(ff) == "sleep"
AfterError(ff) == IF BreakOnError(ff) THEN "write" ELSE "sleep"

\* if total == 0: return 0
AfterLoadAlwaysWrite(us) == IF Len(us) = 0 THEN "write" ELSE "invoke"
AfterLoad(us) == IF Len(us) = 0 THEN "exit" ELSE "invoke"

final_payload ==
    [requested_max_videos |-> maxVideos,
     user_count_requested |-> Len(users),
     user_count_succeeded |-> Len(results),
     user_count_failed |-> Len(errors),
     results |-> results,
     errors |-> errors]

InitRun ==
    /\ pc = "start"
    /\ users = <<>>
    /\ i = 0
    /\ username = <<>>
    /\ last = NoProc
    /\ y = NoResult
    /\ results = <<>>
    /\ errors = <<>>
    /\ trace = <<>>
    /\ written = <<>>
    /\ exitCode = Running

InitDisk ==
    /\ clock = 0
    /\ dir = [t \in 0..MaxClock |-> 0]
    /\ outFile = [r \in 1..MaxRuns |-> NoFile]
    /\ run = 1

Init ==
    /\ seed \in RunSeeds
    /\ failFast \in BOOLEAN
    /\ maxVideos \in MaxVideosChoices
    /\ InitRun
    /\ InitDisk

\* main() up to the loop: read the seed file, stop on an error or on an
\* empty list
Start ==
    /\ pc = "start"
    /\ IF ~seed.exists
       THEN /\ pc' = "exit"
            /\ exitCode' = EXIT_SEED_ERROR
            /\ users' = users
       ELSE /\ users' = read_seed_users(seed)
            /\ pc' = AfterLoad(users')
            /\ exitCode' = IF pc' = "exit" THEN 0 ELSE Running
    /\ UNCHANGED <<seed, failFast, maxVideos, i, username, last, y, results, errors,
                   trace, written, clock, dir, outFile, run>>

\* one iteration of the loop up to the sleep: invoke the tool for the next
\* identifier and record the outcome
Invoke(Outcomes) ==
    /\ pc = "invoke"
    /\ \E o \in Outcomes :
         LET yy == run_ytdlp_json(o)
             uname == users[i + 1]
         IN  /\ last' = o
             /\ y' = yy
             /\ username' = uname
             /\ trace' = Append(trace, "invoke")
             /\ IF IsErr(yy)
                THEN /\ errors' = Append(errors, ErrorRecord(uname, yy))
                     /\ results' = results
                     /\ pc' = AfterError(failFast)
                     /\ exitCode' = exitCode
                ELSE IF Raises(yy.raw)
                THEN /\ pc' = "crashed"
                     /\ exitCode' = Traceback
                     /\ UNCHANGED <<results, errors>>
                ELSE /\ results' = Append(results,
                                          normalize_user_payload(uname, yy.raw, maxVideos))
                     /\ errors' = errors
                     /\ pc' = "sleep"
                     /\ exitCode' = exitCode
    /\ UNCHANGED <<seed, failFast, maxVideos, users, i, written, clock, dir, outFile, run>>

\* the polite sleep that ends an iteration, and the loop's step to the next
\* identifier
Sleep ==
    /\ pc = "sleep"
    /\ trace' = Append(trace, "sleep")
    /\ i' = i + 1
    /\ pc' = IF i' < Len(users) THEN "invoke" ELSE "write"
    /\ UNCHANGED <<seed, failFast, maxVideos, users, username, last, y, results, errors,
                   written, exitCode, clock, dir, outFile, run>>

\* after the loop: name the file by the current second, build the artifact
\* and write it
WriteArtifact ==
    /\ pc = "write"
    /\ \E ts \in clock..MaxClock :
         /\ clock' = ts
         /\ dir' = [dir EXCEPT ![ts] = run]
         /\ outFile' = [outFile EXCEPT ![run] = ts]
    /\ written' = Append(written, final_payload)
    /\ trace' = Append(trace, "artifact")
    /\ pc' = "exit"
    /\ exitCode' = 0
    /\ UNCHANGED <<seed, failFast, maxVideos, users, i, username, last, y, results,
                   errors, run>>

\* the script is started again with the same output directory
NewRun ==
    /\ pc \in {"exit", "crashed"}
    /\ run < MaxRuns
    /\ run' = run + 1
    /\ seed' \in RunSeeds
    /\ failFast' \in BOOLEAN
    /\ maxVideos' \in MaxVideosChoices
    /\ pc' = "start"
    /\ users' = <<>>
    /\ i' = 0
    /\ username' = <<>>
    /\ last' = NoProc
    /\ y' = NoResult
    /\ results' = <<>>
    /\ errors' = <<>>
    /\ trace' = <<>>
    /\ written' = <<>>
    /\ exitCode' = Running
    /\ UNCHANGED <<clock, dir, outFile>>

Next == Start \/ Invoke(ToolOutcomes) \/ Sleep \/ WriteArtifact

Spec == Init /\ [][Next]_vars

\* several runs, one after the other, into one output directory
NextRuns == Start \/ Invoke(FewOutcomes) \/ Sleep \/ WriteArtifact \/ NewRun

SpecRuns == Init /\ [][NextRuns]_vars

-----------------------------------------------------------------------------
(* The seed loader alone, on seed files with blank lines, comments, "@"     *)
(* prefixes, surrounding blanks, case variants and characters outside the   *)
(* sanity class                                                             *)

SeedLineChoices ==
    { <<>>, <<" ">>, <<"#", "a">>, <<"a">>, <<"A">>, <<"@", "a">>, <<"@", "@", "b">>,
      <<"b">>, <<"B">>, <<" ", "B", " ">>, <<"@">>, <<"a", "!">> }

alice == <<"a", "l", "i", "c", "e">>
bob == <<"b", "o", "b">>
ExampleLines == << alice, <<"#", "c", "o", "m", "m", "e", "n", "t">>, <<>>, <<"@">> \o bob, alice >>

SeedFiles ==
    { SeedFile(ls) : ls \in SeqsUpTo(SeedLineChoices, MaxSeedLines) }
    \cup { SeedFile(ExampleLines) }

InitSeed ==
    /\ seed \in SeedFiles
    /\ failFast = FALSE
    /\ maxVideos = DefaultMaxVideos
    /\ InitRun
    /\ InitDisk

NextSeed == Start

SpecSeed == InitSeed /\ [][NextSeed]_vars

-----------------------------------------------------------------------------
(* Runs over one identifier whose payload has one entry, with every choice  *)
(* of the entry's uploader and uploader_id members                          *)

MemberValues ==
    { AbsentVal, NullVal, StrVal(<<>>), StrVal(<<" ">>), StrVal(<<"b">>),
      StrVal(<<" ", "b", " ">>), NumVal(0), NumVal(7) }

VideoOutcomes ==
    { Proc("exited", 0, TRUE,
           [kind |-> "dict",
            entries |-> [ekind |-> "list", items |-> <<Entry(TRUE, 1, u, v)>>]], "")
      : u \in MemberValues, v \in MemberValues }

\* identifiers alice and the empty one left by a line "@"
VideoSeeds == { SeedFile(<<alice>>), SeedFile(<< <<"@">> >>) }

InitVideo ==
    /\ seed \in VideoSeeds
    /\ failFast = FALSE
    /\ maxVideos = DefaultMaxVideos
    /\ InitRun
    /\ InitDisk

NextVideo == Start \/ Invoke(VideoOutcomes) \/ Sleep \/ WriteArtifact

SpecVideo == InitVideo /\ [][NextVideo]_vars

-----------------------------------------------------------------------------
(* Properties *)

InResults(uname) == \E k \in 1..Len(results) : results[k].username = uname
InErrors(uname) == \E k \in 1..Len(errors) : errors[k].username = uname
Invocations == Cardinality({ k \in 1..Len(trace) : trace[k] = "invoke" })

\* the process exited with 0 and its stdout parsed
SucceededProc(o) == o.how = "exited" /\ o.returncode = 0 /\ o.parses
\* the invocation failed: timeout, missing binary, exception, non-zero exit
\* or unparsable stdout
FailedProc(o) == o.how \in {"timeout", "notfound", "exception"}
                 \/ (o.how = "exited" /\ (o.returncode # 0 \/ ~o.parses))

\* C1: in every artifact written, user_count_succeeded + user_count_failed
\* (the lengths of results and errors) is at most user_count_requested, and
\* equals it when fail-fast is disabled.
C1_CountsBounded ==
    \A k \in 1..Len(written) :
        LET a == written[k]
        IN  /\ a.user_count_succeeded = Len(a.results)
            /\ a.user_count_failed = Len(a.errors)
            /\ a.user_count_succeeded + a.user_count_failed <= a.user_count_requested
            /\ ~failFast =>
                 a.user_count_succeeded + a.user_count_failed = a.user_count_requested

C1_Witness ==
    /\ written # <<>>
    /\ ~failFast
    /\ written[1].user_count_succeeded = 1
    /\ written[1].user_count_failed = 1

\* C2: once the seed file is loaded, no outcome of the tool ends the run
\* abnormally: only a seed-file error gives an exit status other than 0.
C2_NoAbnormalHalt ==
    exitCode \notin {Running, 0} => ~seed.exists

ExpectedCode(o) ==
    CASE o.how = "timeout" -> 124
      [] o.how = "notfound" -> 127
      [] o.how = "exception" -> 1
      [] o.how = "exited" /\ o.returncode # 0 -> o.returncode
      [] OTHER -> 2

\* C5 as stated: the ErrorRecord of a failed invocation carries the code of
\* its cause, and no ErrorRecord carries return code 0.
C5_NoZeroCode ==
    /\ FailedProc(last) =>
         (errors # <<>> /\ errors[Len(errors)].returncode = ExpectedCode(last))
    /\ \A k \in 1..Len(errors) : errors[k].returncode # 0

\* C5 amended: the ErrorRecord of a failed invocation is for that identifier
\* and carries the code of its cause (with reason "timeout" for a timeout),
\* which is never 0; an ErrorRecord carries return code 0 only when it records
\* an exit-0 invocation with an empty or null payload, with reason
\* "unknown error".
C5_CodeByCause ==
    /\ FailedProc(last) =>
         /\ errors # <<>>
         /\ errors[Len(errors)].username = username
         /\ errors[Len(errors)].returncode = ExpectedCode(last)
         /\ errors[Len(errors)].returncode # 0
         /\ last.how = "timeout" => errors[Len(errors)].error = "timeout"
    /\ \A k \in 1..Len(errors) :
         errors[k].returncode = 0 => errors[k].error = "unknown error"
    /\ (errors # <<>> /\ errors[Len(errors)].username = username
          /\ errors[Len(errors)].returncode = 0) =>
         (SucceededProc(last) /\ ~Truthy(last.json))

C5_Witness ==
    /\ last.how = "timeout"
    /\ pc = "sleep"
    /\ errors # <<>>
    /\ errors[Len(errors)] =
           [username |-> username, error |-> "timeout", returncode |-> 124]

\* C6: with fail-fast, the first ErrorRecord ends the iteration: nothing more
\* is invoked, and the artifact written holds the results accumulated so far
\* and that one ErrorRecord; without fail-fast an ErrorRecord is followed by
\* the sleep and every identifier is invoked before the artifact is built.
C6_FailFastStops ==
    /\ (failFast /\ errors # <<>>) =>
         /\ pc \in {"write", "exit"}
         /\ Len(errors) = 1
         /\ Invocations = Len(results) + 1
         /\ errors[1].username = users[Len(results) + 1]
    /\ (failFast /\ errors # <<>> /\ pc = "exit") =>
         /\ Len(written) = 1
         /\ written[1].results = results
         /\ written[1].errors = errors
    /\ (~failFast /\ pc \in {"write", "exit"} /\ users # <<>>) =>
         Invocations = Len(users)
    /\ (~failFast /\ trace # <<>> /\ trace[Len(trace)] = "invoke" /\ IsErr(y)) =>
         pc = "sleep"

C6_Witness ==
    /\ failFast
    /\ pc = "exit"
    /\ Len(users) = 2
    /\ Invocations = 1
    /\ Len(errors) = 1
    /\ Len(written) = 1

\* C7: two runs that write an artifact into the same output directory write
\* to distinct files.
C7_DistinctLocations ==
    \A r1 \in 1..MaxRuns, r2 \in 1..MaxRuns :
        (r1 # r2 /\ outFile[r1] # NoFile /\ outFile[r2] # NoFile) =>
            outFile[r1] # outFile[r2]

\* the candidate lines of a seed file, cleaned: blank and comment lines
\* dropped, blanks trimmed, the "@" prefix removed
Cleaned(lines) ==
    LET cand == SelectSeq(lines, LAMBDA l : strip(l) # <<>> /\ Head(strip(l)) # "#")
    IN  [k \in 1..Len(cand) |-> lstrip(strip(cand[k]), {"@"})]

EqIgnoreCase(a, b) ==
    Len(a) = Len(b) /\ \A k \in 1..Len(a) : lower(a[k]) = lower(b[k])

\* positions of c whose identifier did not occur earlier, ignoring case
FirstOccurrences(c) ==
    { k \in 1..Len(c) : \A j \in 1..(k - 1) : ~EqIgnoreCase(c[j], c[k]) }

\* C8: the identifiers loaded are the cleaned candidates at their first
\* occurrence ignoring case, in file order; no two of them are equal ignoring
\* case; lines A, a, B give A, B; lines alice, #comment, blank, @bob, alice
\* give alice, bob.
C8_DedupFirstWins ==
    (pc # "start" /\ seed.exists) =>
        LET c == Cleaned(seed.lines)
            F == FirstOccurrences(c)
        IN  /\ Len(users) = Cardinality(F)
            /\ \A k \in 1..Len(users) :
                 \E j \in F : /\ users[k] = c[j]
                              /\ Cardinality({ m \in F : m < j }) = k - 1
            /\ \A a \in 1..Len(users), b \in 1..Len(users) :
                 a # b => ~EqIgnoreCase(users[a], users[b])
            /\ seed.lines = << <<"A">>, <<"a">>, <<"B">> >> => users = << <<"A">>, <<"B">> >>
            /\ seed.lines = ExampleLines => users = <<alice, bob>>

C8_Witness ==
    /\ pc # "start"
    /\ seed.lines = << <<"A">>, <<"a">>, <<"B">> >>
    /\ users = << <<"A">>, <<"B">> >>

\* the first n elements of s (none when n is not positive)
FirstN(s, n) == SubSeq(s, 1, Min(Max(n, 0), Len(s)))

\* C9: the videos of a UserResult are the object entries among the first
\* max_videos entries of the payload, in order, so there are at most
\* requested_max_videos of them.
C9_VideosBounded ==
    /\ \A k \in 1..Len(results) :
         Len(results[k].videos) <= results[k].requested_max_videos
    /\ (SucceededProc(last) /\ InResults(username)) =>
         results[Len(results)].videos =
             KeepDicts(FirstN(EntriesOrEmpty(last.json), maxVideos), username)

\* C10 as stated: every invocation is followed by a sleep before the next
\* invocation or the construction of the artifact.
C10_SleepAfterEvery ==
    \A k \in 1..(Len(trace) - 1) : trace[k] = "invoke" => trace[k + 1] = "sleep"

\* C10 amended: every invocation is followed by exactly one sleep before the
\* next invocation or the construction of the artifact, the last identifier
\* included, except the invocation whose failure stops a fail-fast run: the
\* artifact is then built with no sleep in between.  A sleep separates any
\* two consecutive invocations.
C10_SleepUnlessAborted ==
    /\ \A k \in 1..(Len(trace) - 1) :
         /\ trace[k] = "invoke" =>
              \/ trace[k + 1] = "sleep"
              \/ (trace[k + 1] = "artifact" /\ failFast /\ errors # <<>>)
         /\ trace[k] = "sleep" => trace[k + 1] # "sleep"
         /\ trace[k + 1] = "artifact" => k + 1 = Len(trace)
    /\ (pc = "exit" /\ written # <<>>) =>
         IF failFast /\ errors # <<>>
         THEN trace[Len(trace) - 1] = "invoke"
         ELSE trace[Len(trace) - 1] = "sleep"

C10_Witness ==
    /\ pc = "exit"
    /\ ~failFast
    /\ errors # <<>>
    /\ trace = <<"invoke", "sleep", "invoke", "sleep", "artifact">>


\* the uploader the three-level fallback gives: each level coerced first,
\* the first non-empty one taken
FallbackUploader(e, uname) ==
    LET a == safe_str(Get(e.uploader))
        b == safe_str(Get(e.uploader_id))
        c == safe_str(StrVal(uname))
    IN  IF a # NullVal THEN a ELSE IF b # NullVal THEN b ELSE c

\* C11: the uploader of every video is the entry's uploader if non-empty
\* after coercion, else its uploader_id if non-empty after coercion, else
\* the run identifier; it is null only when all three are empty.
C11_UploaderFallback ==
    (SucceededProc(last) /\ InResults(username)) =>
        LET es == SelectSeq(SliceTo(EntriesOrEmpty(last.json), maxVideos),
                            LAMBDA e : e.isDict)
            vs == results[Len(results)].videos
        IN  \A k \in 1..Len(vs) :
                /\ vs[k].uploader = FallbackUploader(es[k], username)
                /\ vs[k].uploader = NullVal =>
                     /\ safe_str(Get(es[k].uploader)) = NullVal
                     /\ safe_str(Get(es[k].uploader_id)) = NullVal
                     /\ safe_str(StrVal(username)) = NullVal


\* number of leading, and of trailing, elements of s that are in C
LeadingIn(s, C) == Cardinality({ k \in 1..Len(s) : \A j \in 1..k : s[j] \in C })
TrailingIn(s, C) == Cardinality({ k \in 1..Len(s) : \A j \in k..Len(s) : s[j] \in C })

\* the line without its surrounding blanks
Trimmed(l) ==
    IF LeadingIn(l, Whitespace) = Len(l) THEN <<>>
    ELSE SubSeq(l, LeadingIn(l, Whitespace) + 1, Len(l) - TrailingIn(l, Whitespace))

IsCandidate(l) == Trimmed(l) # <<>> /\ Trimmed(l)[1] # "#"

\* s without one leading "@", and without all of them
WithoutOneAt(s) == IF s # <<>> /\ s[1] = "@" THEN SubSeq(s, 2, Len(s)) ELSE s
WithoutLeadingAts(s) == SubSeq(s, LeadingIn(s, {"@"}) + 1, Len(s))

Lines(sd) == { sd.lines[k] : k \in 1..Len(sd.lines) }
Loaded == { users[k] : k \in 1..Len(users) }

\* C12 as stated: the identifier of a candidate line is the trimmed line
\* without exactly one leading "@" ("@@bob" gives "@bob"), kept whether or
\* not it passes the character check.
C12_StripOneAt ==
    (pc # "start" /\ seed.exists) =>
        /\ \A l \in Lines(seed) :
             IsCandidate(l) =>
                 \E u \in Loaded : EqIgnoreCase(u, WithoutOneAt(Trimmed(l)))
        /\ \A u \in Loaded :
             \E l \in Lines(seed) : IsCandidate(l) /\ u = WithoutOneAt(Trimmed(l))

\* C12 amended: the identifier of a candidate line is the trimmed line
\* without all its leading "@" ("@@b" gives "b", "@a" gives "a"), kept
\* whether or not it passes the character check.
C12_StripAllAts ==
    (pc # "start" /\ seed.exists) =>
        /\ \A l \in Lines(seed) :
             IsCandidate(l) =>
                 \E u \in Loaded : EqIgnoreCase(u, WithoutLeadingAts(Trimmed(l)))
        /\ \A u \in Loaded :
             \E l \in Lines(seed) : IsCandidate(l) /\ u = WithoutLeadingAts(Trimmed(l))
        /\ \A u \in Loaded : u = <<>> \/ u[1] # "@"
        /\ seed.lines = << <<"@", "@", "b">> >> => users = << <<"b">> >>
        /\ seed.lines = << <<"@", "a">> >> => users = << <<"a">> >>
        /\ seed.lines = << <<"a", "!">> >> => users = << <<"a", "!">> >>

C12_Witness ==
    /\ pc # "start"
    /\ seed.lines = << <<"@", "@", "b">>, <<"a", "!">> >>
    /\ users = << <<"b">>, <<"a", "!">> >>
    /\ ~sanity(users[2])

====
